---- MODULE Spec2Model ----
(***************************************************************************)
(* Model of the report functions of the banking application:               *)
(*   src/src/utils.py     filter_operations_by_date, get_greeting,         *)
(*                        analyze_cards, get_top_5_transactions            *)
(*   src/src/services.py  analyze_cashback                                 *)
(*   src/src/reports.py   report_to_file, spending_by_category             *)
(*                                                                         *)
(* Every function is called on arguments drawn in the initial state; one   *)
(* action performs the whole call and stores what it returns (or the fact  *)
(* that it raised).                                                        *)
(*                                                                         *)
(* Values.  A field of a row is a tagged value, the tag being the Python   *)
(* type the loader (pandas.read_excel + to_dict) or a caller can supply:   *)
(*   "absent"  the key is not in the mapping                               *)
(*   "none"    None                                                        *)
(*   "nan"     float('nan'), the loader's placeholder for an empty cell    *)
(*   "str"     a string (s: its characters)                                *)
(*   "num"     an int or a float other than NaN (n: its value)             *)
(* Money is an integer number of amount units, SubCent units to 0.01; the  *)
(* binary representation error of Python floats is not modelled.           *)
(***************************************************************************)
EXTENDS Integers, Sequences, FiniteSets, TLC

VARIABLES
    fn,          \* the function that is called
    pc,          \* "ready" before the call, "returned" or "raised" after it
    now,         \* the wall clock read by datetime.now()
    operations,  \* the list or table of rows given to the function
    args,        \* the other arguments of the call
    result,      \* what the function returned
    files,       \* the file system: the files written, with their content
    log,         \* what the current invocation of a wrapped operation did
    returned,    \* what the wrapper handed back to its caller
    invocations, \* the invocations of the wrapped operation so far
    environ,     \* the process environment: os.getenv("API_ALPHAVANTAGE")
    views_df     \* the module-level variable df of src/src/views.py

vars == <<fn, pc, now, operations, args, result, files, log, returned, invocations,
          environ, views_df>>

\* What a call of a report function reads or does not touch.
inputs == <<fn, now, operations, args, files, log, returned, invocations, environ, views_df>>

\* No value (yet), no argument.
NoValue == [t |-> "novalue"]

\* The state of the wrapper's variables where no wrapped operation is modelled.
NoWrapper ==
    /\ files = {} /\ log = <<>> /\ returned = NoValue /\ invocations = 0
    /\ environ = NoValue /\ views_df = NoValue

\* ------------------------------------------------------------------ bounds
\* Amount units per 0.01 (the resolution of the modelled amounts).
SubCent == 10
\* Longest list of operations given to analyze_cards.
MaxCardOps == 3
\* Longest list of operations given to get_top_5_transactions.
MaxTopOps == 6
\* Longest list of transactions given to analyze_cashback.
MaxCashbackRows == 3
\* Most rows of the table given to filter_operations_by_date.
MaxFilterRows == 3
\* Most rows of the table given to spending_by_category.
MaxSpendingRows == 3
\* Most invocations of a wrapped operation in one run, and most further calls
\* of a function that is called again.
MaxInvocations == 2
\* Longest list of transactions given to analyze_cashback when it is called
\* again.
MaxRepeatedRows == 2
\* Longest input of the filters and aggregators when they are taken together.
MaxFrameRows == 2
\* Most rows of the spreadsheet given to generate_financial_report.
MaxSheetRows == 2

\* ------------------------------------------------------- program constants
\* pd.DateOffset(months=3) of spending_by_category.
WindowMonths == 3
\* The slice [:5] of get_top_5_transactions.
TopN == 5

\* ------------------------------------------------------------- arithmetic
Abs(x) == IF x < 0 THEN -x ELSE x

Min(a, b) == IF a < b THEN a ELSE b

\* round(num / den) to an integer, ties to the even neighbour: Python's round()
\* on the exact value.
RoundHalfEven(num, den) ==
    LET q == num \div den
        r == num % den
    IN  IF 2 * r < den THEN q
        ELSE IF 2 * r > den THEN q + 1
        ELSE IF q % 2 = 0 THEN q ELSE q + 1

\* ---------------------------------------------------------------- strings
\* str.strip(): leading and trailing blanks removed.
RECURSIVE LStrip(_)
LStrip(s) == IF s # <<>> /\ Head(s) = " " THEN LStrip(Tail(s)) ELSE s

RECURSIVE RStrip(_)
RStrip(s) ==
    IF s # <<>> /\ s[Len(s)] = " " THEN RStrip(SubSeq(s, 1, Len(s) - 1)) ELSE s

Strip(s) == RStrip(LStrip(s))

\* The values of a field that holds nothing: the key is absent, None, the
\* loader's NaN, the NaT of a datetime column.
Absent == [t |-> "absent"]
None == [t |-> "none"]
NaN == [t |-> "nan"]
NaT == [t |-> "nat"]
\* A string, as the sequence of its characters, and a number other than NaN.
Text(chars) == [t |-> "str", s |-> chars]
Num(n) == [t |-> "num", n |-> n]

\* str(x) of a field value; an absent card number is read with the default "".
Str(v) ==
    CASE v.t = "absent" -> <<>>
      [] v.t = "none"   -> <<"N", "o", "n", "e">>
      [] v.t = "nan"    -> <<"n", "a", "n">>
      [] OTHER          -> v.s

\* ------------------------------------------------------------------- dates
\* A date-time value: year, month, day, hour, minute, second, microsecond.
DT(y, mo, d, h, mi, sec, us) ==
    [y |-> y, mo |-> mo, d |-> d, h |-> h, mi |-> mi, s |-> sec, us |-> us]

\* a < b and a <= b on date-times.
DtLess(a, b) ==
    LET x == <<a.y, a.mo, a.d, a.h, a.mi, a.s, a.us>>
        y == <<b.y, b.mo, b.d, b.h, b.mi, b.s, b.us>>
    IN  \E i \in 1..7 : x[i] < y[i] /\ \A j \in 1..(i - 1) : x[j] = y[j]

DtLeq(a, b) == a = b \/ DtLess(a, b)

\* The days of a month.
DaysIn(y, mo) ==
    IF mo = 2 THEN (IF (y % 4 = 0 /\ y % 100 # 0) \/ y % 400 = 0 THEN 29 ELSE 28)
    ELSE IF mo \in {4, 6, 9, 11} THEN 30 ELSE 31

\* The field values datetime() accepts.
ValidDT(dt) ==
    /\ dt.y \in 1..9999 /\ dt.mo \in 1..12 /\ dt.d \in 1..DaysIn(dt.y, dt.mo)
    /\ dt.h \in 0..23 /\ dt.mi \in 0..59 /\ dt.s \in 0..59 /\ dt.us \in 0..999999

\* A date field of a row.  A string is the layout of its text (form) and the
\* numbers written in it (dt); "ts" is a datetime / Timestamp object.
\*   "d.m.Y H:M:S"  31.07.2020 08:25:19        "d.m.Y"  31.07.2020
\*   "d/m/Y"        31/07/2020                 "Y-m-d"  2020-07-31
\*   "Y-m-d H:M:S"  2020-07-31 08:25:19
StrDate(form, dt) == [t |-> "str", form |-> form, dt |-> dt]
TsDate(dt) == [t |-> "ts", form |-> "", dt |-> dt]

\* datetime.strptime(text, fmt) succeeds: the text has the layout of fmt and its
\* numbers make a date-time; otherwise it raises ValueError.
Parses(v, fmt) == v.t = "str" /\ v.form = fmt /\ ValidDT(v.dt)

\* dt.strftime("%d.%m.%Y"): the text of the day, the time of day dropped.
Strftime_dmY(dt) == StrDate("d.m.Y", DT(dt.y, dt.mo, dt.d, 0, 0, 0, 0))

\* The placeholder date "Неизвестно" of get_top_5_transactions.
UnknownDate == StrDate("unknown", DT(0, 0, 0, 0, 0, 0, 0))

\* The clock of the calls that do not read it.
Midnight == DT(2020, 8, 25, 0, 0, 0, 0)

\* ------------------------------------------------------------ get_greeting
\* The greetings are written in Latin letters here.
\* A boundary slip: the morning range opened at 7 instead of 6.
get_greeting_late_morning(hour) ==
    IF 6 < hour /\ hour < 12 THEN "Dobroe utro"
    ELSE IF 12 <= hour /\ hour < 18 THEN "Dobryj den"
    ELSE IF 18 <= hour /\ hour < 24 THEN "Dobryj vecher"
    ELSE "Dobroj nochi"

get_greeting(hour) ==
    IF 6 <= hour /\ hour < 12 THEN "Dobroe utro"
    ELSE IF 12 <= hour /\ hour < 18 THEN "Dobryj den"
    ELSE IF 18 <= hour /\ hour < 24 THEN "Dobryj vecher"
    ELSE "Dobroj nochi"

InitGreeting ==
    /\ fn = "get_greeting"
    /\ pc = "ready"
    /\ now \in {DT(2020, 8, 25, h, mi, 0, 0) : h \in 0..23, mi \in 0..59}
    /\ args = NoValue
    /\ operations = <<>>
    /\ result = ""
    /\ NoWrapper

GetGreeting ==
    /\ pc = "ready"
    /\ result' = get_greeting(now.h)
    /\ pc' = "returned"
    /\ UNCHANGED inputs

NextGreeting == GetGreeting

SpecGreeting == InitGreeting /\ [][NextGreeting]_vars

C8_Greetings == {"Dobroe utro", "Dobryj den", "Dobryj vecher", "Dobroj nochi"}

\* C8: get_greeting is a total function of the hour 0..23 over half-open ranges:
\* [6,12) morning, [12,18) afternoon, [18,24) evening, [0,6) night; every hour
\* gets exactly one of the four greetings, and 6, 12, 18, 0 open their range.
C8_GreetingRanges ==
    pc = "returned" =>
        /\ result \in C8_Greetings
        /\ (result = "Dobroe utro") <=> (now.h \in 6..11)
        /\ (result = "Dobryj den") <=> (now.h \in 12..17)
        /\ (result = "Dobryj vecher") <=> (now.h \in 18..23)
        /\ (result = "Dobroj nochi") <=> (now.h \in 0..5)
        /\ Cardinality({g \in C8_Greetings : g = result}) = 1

\* The call at 06:00, the first minute of the morning range.
C8_Witness == pc = "returned" /\ now.h = 6 /\ now.mi = 0 /\ result = "Dobroe utro"

\* ----------------------------------------------------------- analyze_cards
\* The operations given to analyze_cards.  Cards: two that end in 1234, a
\* two-character number, a padded number; then no card at all, in every way the
\* loader or a caller can say so.  Amounts: -0.504, -1.000 and +0.300 units of
\* money (SubCent amount units to 0.01), then zero and what is no number.
CardOps ==
    [card : {Text(<<"9", "1", "2", "3", "4">>), Text(<<"8", "1", "2", "3", "4">>),
             Text(<<"7", "7">>), Text(<<" ", "5", "6", "7", "8", " ">>)},
     amount : {Num(-504), Num(-1000), Num(300)}]
        \cup [card : {Absent, None, NaN, Text(<<>>), Text(<<" ", " ">>)},
              amount : {Num(-504)}]
        \cup [card : {Text(<<"9", "1", "2", "3", "4">>)},
              amount : {Num(0), NaN, Absent, None, Text(<<"1", "0">>)}]

\* Sequences over S of length 0..n.
SeqUpTo(S, n) == UNION {[1..k -> S] : k \in 0..n}

\* op.get("Сумма операции", 0): the amount, 0 when the key is absent.
AmountOrZero(a) == IF a.t = "absent" THEN Num(0) ELSE a

\* isinstance(amount, (int, float)): NaN is a float.
IsIntOrFloat(a) == a.t \in {"num", "nan"}

\* amount < 0, counting positive amounts as well: the sign test dropped.
IsExpenseAnySign(a) == a.t = "num" /\ a.n # 0

\* amount < 0; every comparison with NaN is false.
IsExpense(a) == a.t = "num" /\ a.n < 0

\* str(op.get("Номер карты", "")).strip()
CardNumber(op) == Strip(Str(op.card))

\* card_number[-4:] if len(card_number) >= 4 else card_number
Last4(card_number) ==
    IF Len(card_number) >= 4
    THEN SubSeq(card_number, Len(card_number) - 3, Len(card_number))
    ELSE card_number

\* card_expenses[key] += v on a defaultdict(float): the mapping as the sequence of
\* its items in insertion order.
DictAdd(d, key, v) ==
    IF \E j \in 1..Len(d) : d[j].key = key
    THEN [j \in 1..Len(d) |->
            IF d[j].key = key THEN [key |-> key, value |-> d[j].value + v] ELSE d[j]]
    ELSE Append(d, [key |-> key, value |-> v])

\* The first loop of analyze_cards from operation i on.
RECURSIVE CardExpenses(_, _, _)
CardExpenses(ops, i, card_expenses) ==
    IF i > Len(ops) THEN card_expenses
    ELSE LET card_number == CardNumber(ops[i])
             amount == AmountOrZero(ops[i].amount)
         IN  IF card_number = <<>> \/ ~IsIntOrFloat(amount)
             THEN CardExpenses(ops, i + 1, card_expenses)
             ELSE IF IsExpense(amount)
             THEN CardExpenses(ops, i + 1,
                               DictAdd(card_expenses, Last4(card_number), Abs(amount.n)))
             ELSE CardExpenses(ops, i + 1, card_expenses)

\* The entry of one card: round(total_spent * 0.01, 2) and round(total_spent, 2),
\* both in hundredths.
CardEntry(item) ==
    [last_digits |-> item.key,
     total_spent |-> RoundHalfEven(item.value, SubCent),
     cashback |-> RoundHalfEven(item.value, 100 * SubCent)]

analyze_cards(ops) ==
    LET card_expenses == CardExpenses(ops, 1, <<>>)
    IN  [j \in 1..Len(card_expenses) |-> CardEntry(card_expenses[j])]

InitCards ==
    /\ fn = "analyze_cards"
    /\ pc = "ready"
    /\ now = Midnight
    /\ args = NoValue
    /\ operations \in SeqUpTo(CardOps, MaxCardOps)
    /\ result = <<>>
    /\ NoWrapper

AnalyzeCards ==
    /\ pc = "ready"
    /\ result' = analyze_cards(operations)
    /\ pc' = "returned"
    /\ UNCHANGED inputs

NextCards == AnalyzeCards

SpecCards == InitCards /\ [][NextCards]_vars

\* The last 4 characters of the text of an operation's card number (all of them
\* when there are fewer).
C1_Suffix(op) ==
    LET text == Strip(Str(op.card))
    IN  SubSeq(text, Len(text) - Min(4, Len(text)) + 1, Len(text))

C1_IsNegative(a) == a.t = "num" /\ a.n < 0

\* The sum of the absolute values of the negative amounts of the operations
\* i..Len(ops) whose card number ends in suffix.
RECURSIVE C1_Spent(_, _, _)
C1_Spent(ops, i, suffix) ==
    IF i > Len(ops) THEN 0
    ELSE (IF C1_Suffix(ops[i]) = suffix /\ C1_IsNegative(ops[i].amount)
          THEN -ops[i].amount.n ELSE 0) + C1_Spent(ops, i + 1, suffix)

\* out is num / den rounded to the nearest integer.
Nearest(out, num, den) == 2 * Abs(out * den - num) <= den

\* C1: for each card suffix with at least one negative numeric amount the result
\* holds one entry; every entry's total_spent is the sum of the absolute values
\* of the negative amounts of its suffix rounded to 2 decimals, and its cashback
\* is 1% of that sum rounded to 2 decimals; positive and zero amounts add nothing.
C1_CardTotals ==
    pc = "returned" =>
        /\ \A k \in 1..Len(operations) :
              C1_IsNegative(operations[k].amount) /\ C1_Suffix(operations[k]) # <<>>
                  => Cardinality({j \in 1..Len(result) :
                         result[j].last_digits = C1_Suffix(operations[k])}) = 1
        /\ \A j \in 1..Len(result) :
              LET spent == C1_Spent(operations, 1, result[j].last_digits)
              IN  /\ Nearest(result[j].total_spent, spent, SubCent)
                  /\ Nearest(result[j].cashback, spent, 100 * SubCent)

\* Two cards ending in 1234 spend 0.504 and 1.000, one of them also receives
\* 0.300: one entry, 1.50 spent, 0.02 cashback.
C1_Witness ==
    /\ pc = "returned"
    /\ operations = <<[card |-> Text(<<"9", "1", "2", "3", "4">>), amount |-> Num(-504)],
                      [card |-> Text(<<"8", "1", "2", "3", "4">>), amount |-> Num(-1000)],
                      [card |-> Text(<<"9", "1", "2", "3", "4">>), amount |-> Num(300)]>>
    /\ result = <<[last_digits |-> <<"1", "2", "3", "4">>,
                   total_spent |-> 150, cashback |-> 2]>>

\* A card number that is absent, None, the loader's NaN, or blank.
C9_CardMissing(op) ==
    op.card.t \in {"absent", "none", "nan"} \/ (op.card.t = "str" /\ Strip(op.card.s) = <<>>)

C9_Ignored(op) == C9_CardMissing(op) \/ op.amount.t # "num"

C9_Kept(op) == ~C9_Ignored(op)

\* C9: a record whose card number is empty or missing (absent, blank, None/NaN
\* placeholder) or whose amount is not numeric creates no entry and changes no
\* total: the result is that of the list without these records.
C9_MissingIgnored ==
    pc = "returned" => result = analyze_cards(SelectSeq(operations, C9_Kept))

\* -------------------------------------------------- get_top_5_transactions
Reverse(s) == [i \in 1..Len(s) |-> s[Len(s) + 1 - i]]

\* str(op.get(key, "—")).strip(); the dash is written "-" here.
TextOrDash(v) == Strip(IF v.t = "absent" THEN <<"-">> ELSE Str(v))

\* The date text of a transaction: a string is parsed as "%d.%m.%Y %H:%M:%S" and
\* written back as the day, a value with strftime is formatted, anything else
\* (and a string that does not parse) becomes the placeholder.
DateStr(date) ==
    IF date.t = "str"
    THEN (IF Parses(date, "d.m.Y H:M:S") THEN Strftime_dmY(date.dt) ELSE UnknownDate)
    ELSE IF date.t = "ts" THEN Strftime_dmY(date.dt)
    ELSE UnknownDate

\* date.strftime("%d.%m.%Y") raises ValueError: the date is NaT, the missing
\* value of a datetime column, which has the attribute strftime and supports no
\* formatting.
DateStrRaises(date) == date.t = "nat"

Transaction(op) ==
    [date |-> DateStr(op.date),
     amount |-> op.amount,
     category |-> TextOrDash(op.category),
     description |-> TextOrDash(op.description)]

\* The loop of get_top_5_transactions from operation i on; the amount is read
\* with op.get(key), so an absent amount is None and is skipped.
RECURSIVE Transactions(_, _, _)
Transactions(ops, i, transactions) ==
    IF i > Len(ops) THEN transactions
    ELSE IF ~IsIntOrFloat(ops[i].amount)
    THEN Transactions(ops, i + 1, transactions)
    ELSE Transactions(ops, i + 1, Append(transactions, Transaction(ops[i])))

\* abs(x["amount"]) < abs(y["amount"]) on floats: false when either is NaN.
KeyLess(x, y) ==
    x.amount.t = "num" /\ y.amount.t = "num" /\ Abs(x.amount.n) < Abs(y.amount.n)

\* list.sort of a list shorter than 64 items (CPython 3.11, listobject.c): the
\* leading run is found by count_run (a strictly descending run is reversed), the
\* other items are placed by binary insertion.
RECURSIVE DescendingRun(_, _)
DescendingRun(a, n) ==
    IF n < Len(a) /\ KeyLess(a[n + 1], a[n]) THEN DescendingRun(a, n + 1) ELSE n

RECURSIVE AscendingRun(_, _)
AscendingRun(a, n) ==
    IF n < Len(a) /\ ~KeyLess(a[n + 1], a[n]) THEN AscendingRun(a, n + 1) ELSE n

\* The position (0-based) binary insertion gives pivot in the sorted a[0..r-1].
RECURSIVE InsertionPoint(_, _, _, _)
InsertionPoint(a, pivot, l, r) ==
    IF l < r
    THEN LET p == l + ((r - l) \div 2)
         IN  IF KeyLess(pivot, a[p + 1])
             THEN InsertionPoint(a, pivot, l, p)
             ELSE InsertionPoint(a, pivot, p + 1, r)
    ELSE l

\* binarysort: a[0..start-1] is sorted, the items from start (0-based) on are
\* inserted one by one.
RECURSIVE BinarySort(_, _)
BinarySort(a, start) ==
    IF start >= Len(a) THEN a
    ELSE LET pivot == a[start + 1]
             l == InsertionPoint(a, pivot, 0, start)
         IN  BinarySort(SubSeq(a, 1, l) \o <<pivot>> \o SubSeq(a, l + 1, start)
                            \o SubSeq(a, start + 2, Len(a)),
                        start + 1)

ListSort(a) ==
    IF Len(a) < 2 THEN a
    ELSE LET descending == KeyLess(a[2], a[1])
             n == IF descending THEN DescendingRun(a, 2) ELSE AscendingRun(a, 2)
             run == IF descending
                    THEN Reverse(SubSeq(a, 1, n)) \o SubSeq(a, n + 1, Len(a))
                    ELSE a
         IN  BinarySort(run, n)

\* sorted(transactions, key=lambda x: abs(x["amount"]), reverse=True): the list is
\* reversed, sorted ascending and reversed again.
SortedByAbsDescending(transactions) == Reverse(ListSort(Reverse(transactions)))

get_top_5_transactions(ops) ==
    LET sorted == SortedByAbsDescending(Transactions(ops, 1, <<>>))
    IN  SubSeq(sorted, 1, Min(TopN, Len(sorted)))

\* A date as the loader reads it, "31.07.2020 08:25:19".
OperationDate == StrDate("d.m.Y H:M:S", DT(2020, 7, 31, 8, 25, 19, 0))
\* A date in another layout, "31/07/2020".
SlashDate == StrDate("d/m/Y", DT(2020, 7, 31, 0, 0, 0, 0))

\* Four numeric operations (two of them equal in absolute amount), one with text
\* for an amount, one with the loader's NaN.
TopOps ==
    {[date |-> OperationDate, amount |-> Num(-300),
      category |-> Text(<<"T">>), description |-> Text(<<"a">>)],
     [date |-> TsDate(DT(2025, 4, 2, 0, 0, 0, 0)), amount |-> Num(300),
      category |-> Absent, description |-> Absent],
     [date |-> SlashDate, amount |-> Num(100),
      category |-> Text(<<" ", "C", " ">>), description |-> Text(<<"c">>)],
     [date |-> Absent, amount |-> Num(-700),
      category |-> Text(<<"T">>), description |-> Text(<<"d">>)],
     [date |-> OperationDate, amount |-> Text(<<"1", "0">>),
      category |-> Text(<<"T">>), description |-> Text(<<"e">>)],
     [date |-> OperationDate, amount |-> NaN,
      category |-> NaN, description |-> Text(<<"f">>)],
     [date |-> NaT, amount |-> Num(-50),
      category |-> Text(<<"T">>), description |-> Text(<<"g">>)]}

InitTop ==
    /\ fn = "get_top_5_transactions"
    /\ pc = "ready"
    /\ now = Midnight
    /\ args = NoValue
    /\ operations \in SeqUpTo(TopOps, MaxTopOps)
    /\ result = <<>>
    /\ NoWrapper

\* get_top_5_transactions(operations): the call raises in the loop when the date
\* of a record with a numeric amount cannot be formatted.
GetTop5Transactions ==
    /\ pc = "ready"
    /\ IF \E i \in 1..Len(operations) :
            IsIntOrFloat(operations[i].amount) /\ DateStrRaises(operations[i].date)
       THEN pc' = "raised" /\ result' = <<>>
       ELSE pc' = "returned" /\ result' = get_top_5_transactions(operations)
    /\ UNCHANGED inputs

NextTop == GetTop5Transactions

SpecTop == InitTop /\ [][NextTop]_vars

\* isinstance(amount, (int, float)): the records the claim calls numeric.
C2_NumericIndexes(ops) == {k \in 1..Len(ops) : ops[k].amount.t \in {"num", "nan"}}

\* |a| >= |b| as Python compares floats: false when either is NaN.
C2_AbsGeq(a, b) == a.t = "num" /\ b.t = "num" /\ Abs(a.n) >= Abs(b.n)

\* The place of record k in the stable ordering by descending abs(amount).
C2_Rank(ops, k) ==
    1 + Cardinality({j \in C2_NumericIndexes(ops) :
            \/ Abs(ops[j].amount.n) > Abs(ops[k].amount.n)
            \/ (Abs(ops[j].amount.n) = Abs(ops[k].amount.n) /\ j < k)})

C2_Ordered(ops) ==
    [r \in 1..Cardinality(C2_NumericIndexes(ops)) |->
        Transaction(ops[CHOOSE k \in C2_NumericIndexes(ops) : C2_Rank(ops, k) = r])]

\* C2: the result is the first 5 (or all) of the stable ordering by descending
\* abs(amount) of the records with a numeric amount: at most 5 items, every
\* adjacent pair has abs(amount[i]) >= abs(amount[i+1]), ties keep input order,
\* no omitted record is larger than a returned one, amounts keep their sign.
C2_TopFive ==
    pc = "returned" =>
        /\ Len(result) = Min(5, Cardinality(C2_NumericIndexes(operations)))
        /\ \A i \in 1..(Len(result) - 1) :
              C2_AbsGeq(result[i].amount, result[i + 1].amount)
        /\ (\A k \in C2_NumericIndexes(operations) : operations[k].amount.t = "num")
              => result = SubSeq(C2_Ordered(operations), 1, Len(result))

\* The records with a numeric amount (a number, not the loader's NaN).
C18_Numeric == {k \in 1..Len(operations) : operations[k].amount.t = "num"}

\* A date that is missing, or a string that is not DD.MM.YYYY HH:MM:SS.
C18_NoDate(date) ==
    \/ date.t \in {"absent", "none", "nan", "nat"}
    \/ (date.t = "str" /\ ~(date.form = "d.m.Y H:M:S" /\ ValidDT(date.dt)))

\* C18: the call does not raise; the result has min(5, n) items, n the number
\* of records with a numeric amount; every returned date is a DD.MM.YYYY string
\* or the sentinel; when nothing is cut off, every record with a numeric amount
\* and without a usable date is in the result, the sentinel as its date.
C18_OnlyAmountDiscards ==
    /\ pc # "raised"
    /\ pc = "returned" =>
          /\ Len(result) = Min(5, Cardinality(C18_Numeric))
          /\ \A j \in 1..Len(result) : result[j].date.form \in {"d.m.Y", "unknown"}
          /\ Cardinality(C18_Numeric) <= 5 =>
                \A k \in C18_Numeric :
                    C18_NoDate(operations[k].date) =>
                        \E j \in 1..Len(result) :
                            /\ result[j].date = UnknownDate
                            /\ result[j].amount = operations[k].amount
                            /\ result[j].description = TextOrDash(operations[k].description)

\* Holds of the code: the same, for lists without the missing-value placeholders
\* NaN (as an amount) and NaT (as a date).
C18_WithoutPlaceholders ==
    (\A k \in 1..Len(operations) :
        operations[k].amount.t # "nan" /\ operations[k].date.t # "nat")
        => C18_OnlyAmountDiscards

\* -------------------------------------------------------- analyze_cashback
\* The "Неизвестно" default of an absent category.
Unknown == <<"?">>

\* A float that may be NaN: x + y and round(x, 2), NaN absorbing.
FloatAdd(x, y) == IF x.t = "nan" \/ y.t = "nan" THEN NaN ELSE Num(x.n + y.n)

Round2(x) == IF x.t = "nan" THEN NaN ELSE Num(RoundHalfEven(x.n, SubCent))

\* if category in d: d[category] += cashback, else: d[category] = cashback
DictAccumulate(d, key, v) ==
    IF \E j \in 1..Len(d) : d[j].key = key
    THEN [j \in 1..Len(d) |->
            IF d[j].key = key
            THEN [key |-> key, value |-> FloatAdd(d[j].value, v)] ELSE d[j]]
    ELSE Append(d, [key |-> key, value |-> v])

\* transaction.get("Категория", "Неизвестно")
CategoryOf(transaction) ==
    IF transaction.category.t = "absent" THEN Unknown ELSE transaction.category.s

\* not isinstance(cashback, (int, float)) or cashback < 0; NaN < 0 is false.
CashbackSkipped(cashback) ==
    ~IsIntOrFloat(cashback) \/ (cashback.t = "num" /\ cashback.n < 0)

\* The loop of analyze_cashback from transaction i on.  When
\* strptime(transaction.get("Дата операции", ""), "%d.%m.%Y %H:%M:%S") raises (a
\* value that is no string TypeError, other text ValueError) the record is
\* skipped.
RECURSIVE CashbackByCategory(_, _, _, _, _)
CashbackByCategory(data, year, month, i, d) ==
    IF i > Len(data) THEN d
    ELSE LET transaction == data[i]
             cashback == AmountOrZero(transaction.cashback)
         IN  IF ~Parses(transaction.date, "d.m.Y H:M:S")
             THEN CashbackByCategory(data, year, month, i + 1, d)
             ELSE IF transaction.date.dt.y # year \/ transaction.date.dt.mo # month
             THEN CashbackByCategory(data, year, month, i + 1, d)
             ELSE IF CashbackSkipped(cashback)
             THEN CashbackByCategory(data, year, month, i + 1, d)
             ELSE CashbackByCategory(data, year, month, i + 1,
                                     DictAccumulate(d, CategoryOf(transaction), cashback))

\* json.dumps of a mapping from strings to floats: the text of a JSON object, as
\* the sequence of its members in the mapping's order; the text of a float is
\* its decimal numeral, of NaN the token NaN.
JsonDumpsMapping(d) ==
    [json |-> "object",
     members |-> [j \in 1..Len(d) |->
                     [key |-> d[j].key,
                      value |-> IF d[j].value.t = "nan" THEN [json |-> "NaN"]
                                ELSE [json |-> "number", n |-> d[j].value.n]]]]

\* The sums an earlier call reached, kept as the start of the next call.
CashbackLeftOver ==
    IF pc = "ready" THEN <<>>
    ELSE [j \in 1..Len(result.members) |->
            [key |-> result.members[j].key,
             value |-> IF result.members[j].value.json = "NaN" THEN NaN
                       ELSE Num(result.members[j].value.n * SubCent)]]

\* cashback_by_category = {}: a mapping local to the call, empty at its start.
CashbackAtStart == <<>>

analyze_cashback(data, year, month) ==
    LET d == CashbackByCategory(data, year, month, 1, CashbackAtStart)
        rounded == [j \in 1..Len(d) |-> [key |-> d[j].key, value |-> Round2(d[j].value)]]
    IN  JsonDumpsMapping(rounded)

\* The date of day 15 of a month, at 12:30:00, as the loader reads it.
MidMonth(y, mo) == StrDate("d.m.Y H:M:S", DT(y, mo, 15, 12, 30, 0, 0))

\* Transactions of July 2020 with a cashback of 0.004 and 0.020 (SubCent amount
\* units to 0.01), with the loader's NaN, with a cashback that is negative, zero
\* or no number; then transactions of other months and with dates that do not
\* parse (32.07.2020 has the layout, but is no day).
CashbackRows ==
    [date : {MidMonth(2020, 7)}, category : {Text(<<"A">>), Text(<<"B">>), Absent},
     cashback : {Num(4), Num(20), NaN}]
        \cup [date : {MidMonth(2020, 7)}, category : {Text(<<"A">>)},
              cashback : {Num(-5), Num(0), Text(<<"1", "0">>), None, Absent}]
        \cup [date : {MidMonth(2020, 6), MidMonth(2021, 7), SlashDate,
                      StrDate("d.m.Y H:M:S", DT(2020, 7, 32, 12, 30, 0, 0)),
                      Absent, None, NaN, TsDate(DT(2020, 7, 15, 12, 30, 0, 0))},
              category : {Text(<<"B">>)}, cashback : {Num(4)}]

InitCashback ==
    /\ fn = "analyze_cashback"
    /\ pc = "ready"
    /\ now = Midnight
    /\ operations \in SeqUpTo(CashbackRows, MaxCashbackRows)
    /\ args \in [year : {2020, 2021}, month : {6, 7}]
    /\ result = <<>>
    /\ NoWrapper

AnalyzeCashback ==
    /\ pc = "ready"
    /\ result' = analyze_cashback(operations, args.year, args.month)
    /\ pc' = "returned"
    /\ UNCHANGED inputs

NextCashback == AnalyzeCashback

SpecCashback == InitCashback /\ [][NextCashback]_vars

InitCashbackRepeated ==
    /\ fn = "analyze_cashback"
    /\ pc = "ready"
    /\ now = Midnight
    /\ operations \in SeqUpTo(CashbackRows, MaxRepeatedRows)
    /\ args \in [year : {2020, 2021}, month : {6, 7}]
    /\ result = <<>>
    /\ NoWrapper

\* analyze_cashback called once more with the same arguments; the result of the
\* call before is kept for comparison.
AnalyzeCashbackAgain ==
    /\ pc = "returned"
    /\ invocations < MaxInvocations
    /\ invocations' = invocations + 1
    /\ returned' = result
    /\ result' = analyze_cashback(operations, args.year, args.month)
    /\ UNCHANGED <<fn, pc, now, operations, args, files, log, environ, views_df>>

NextCashbackRepeated == AnalyzeCashback \/ AnalyzeCashbackAgain

SpecCashbackRepeated == InitCashbackRepeated /\ [][NextCashbackRepeated]_vars

\* A record whose cashback is a number >= 0 (an absent cashback is read as 0).
C3_CashbackCounts(transaction) ==
    \/ transaction.cashback.t = "absent"
    \/ (transaction.cashback.t = "num" /\ transaction.cashback.n >= 0)

\* The records the claim aggregates: the date parses as DD.MM.YYYY HH:MM:SS, its
\* year and month are the target's, the cashback is a number >= 0.
C3_Counted(transaction) ==
    /\ transaction.date.t = "str" /\ transaction.date.form = "d.m.Y H:M:S"
    /\ ValidDT(transaction.date.dt)
    /\ transaction.date.dt.y = args.year /\ transaction.date.dt.mo = args.month
    /\ C3_CashbackCounts(transaction)

C3_Category(transaction) ==
    IF transaction.category.t = "absent" THEN Unknown ELSE transaction.category.s

RECURSIVE C3_Sum(_, _)
C3_Sum(i, c) ==
    IF i > Len(operations) THEN 0
    ELSE (IF C3_Counted(operations[i]) /\ C3_Category(operations[i]) = c
             /\ operations[i].cashback.t = "num"
          THEN operations[i].cashback.n ELSE 0) + C3_Sum(i + 1, c)

C3_Categories == {C3_Category(operations[k]) : k \in {j \in 1..Len(operations) : C3_Counted(operations[j])}}

\* C3: the returned JSON maps each category to the sum, rounded once to 2
\* decimals, of the cashback of exactly the records of the target year and month
\* whose date parses and whose cashback is a number >= 0; an absent category
\* counts as "Unknown".
C3_CashbackSums ==
    pc = "returned" =>
        /\ {result.members[j].key : j \in 1..Len(result.members)} = C3_Categories
        /\ \A j \in 1..Len(result.members) :
              /\ \A i \in 1..Len(result.members) :
                    result.members[i].key = result.members[j].key => i = j
              /\ result.members[j].value.json = "number"
              /\ Nearest(result.members[j].value.n, C3_Sum(1, result.members[j].key), SubCent)

\* A record that is well formed: its date parses and its cashback is a
\* non-negative number (or absent, read as 0).
C10_WellFormed(transaction) ==
    /\ transaction.date.t = "str" /\ transaction.date.form = "d.m.Y H:M:S"
    /\ ValidDT(transaction.date.dt)
    /\ C3_CashbackCounts(transaction)

\* C10: analyze_cashback never raises, and no category of its output has only
\* records with a non-numeric or negative cashback or an unparseable date.
C10_NoMalformedCategory ==
    /\ pc # "raised"
    /\ pc = "returned" =>
          \A j \in 1..Len(result.members) :
              \E k \in 1..Len(operations) :
                  /\ C3_Category(operations[k]) = result.members[j].key
                  /\ C10_WellFormed(operations[k])

Count(s, x) == Cardinality({i \in 1..Len(s) : s[i] = x})

\* s is t in another order.
IsPermutation(s, t) ==
    /\ Len(s) = Len(t)
    /\ \A i \in 1..Len(s) : Count(s, s[i]) = Count(t, s[i])

\* DataFrame.sort_values(column) with the default kind="quicksort", which is not
\* a stable sort: the rows in ascending order of the column, rows with equal
\* values in any order.
SortValues(rows, column) ==
    {s \in [1..Len(rows) -> {rows[i] : i \in 1..Len(rows)}] :
        /\ IsPermutation(s, rows)
        /\ \A i \in 1..(Len(s) - 1) : DtLeq(s[i][column].dt, s[i + 1][column].dt)}

\* target_date.replace(day=1): the time of day stays that of the target.
FirstDay(target_date) ==
    DT(target_date.y, target_date.mo, 1,
       target_date.h, target_date.mi, target_date.s, target_date.us)

\* The window closed at the target's own time of day.
TargetEndAtTarget(target_date) == target_date

\* target_date.replace(hour=23, minute=59, second=59, microsecond=999999)
TargetEnd(target_date) ==
    DT(target_date.y, target_date.mo, target_date.d, 23, 59, 59, 999999)

\* df.dropna(subset=["Дата платежа"]) and the two comparisons.
FilteredDf(df, target_date) ==
    SelectSeq(df, LAMBDA row :
        /\ row.payment.t = "ts"
        /\ DtLeq(FirstDay(target_date), row.payment.dt)
        /\ DtLeq(row.payment.dt, TargetEnd(target_date)))

\* A payment date of the table: the column holds timestamps.
Payment(y, mo, d, h, mi, sec) == TsDate(DT(y, mo, d, h, mi, sec, 0))

\* Rows of April 2025 and around it; the loader's dates are days at 00:00:00, a
\* caller's table may hold any time of day.
FilterRows ==
    [payment : {Payment(2025, 3, 31, 0, 0, 0), Payment(2025, 4, 1, 0, 0, 0),
                Payment(2025, 4, 1, 23, 59, 59), Payment(2025, 4, 6, 23, 59, 59), Payment(2025, 4, 7, 0, 0, 0),
                Payment(2025, 4, 30, 23, 59, 59), Payment(2025, 5, 1, 0, 0, 0), NaT},
     amount : {Num(-100)}]
        \cup [payment : {Payment(2025, 4, 2, 0, 0, 0)}, amount : {Num(-100), Num(-200)}]

\* The targets: 2025-04-31 is no day; 06.04.2025 is not the layout
\* "%Y-%m-%d %H:%M:%S".
FilterTargets ==
    {StrDate("Y-m-d H:M:S", DT(2025, 4, d[1], d[2], d[3], d[4], 0)) :
        d \in {<<6, 22, 12, 53>>, <<6, 0, 0, 0>>, <<30, 15, 30, 0>>, <<1, 8, 0, 0>>,
               <<1, 23, 59, 59>>, <<31, 0, 0, 0>>}}
        \cup {StrDate("d.m.Y", DT(2025, 4, 6, 0, 0, 0, 0))}

InitFilter ==
    /\ fn = "filter_operations_by_date"
    /\ pc = "ready"
    /\ now = Midnight
    /\ operations \in SeqUpTo(FilterRows, MaxFilterRows)
    /\ args \in [date_str : FilterTargets]
    /\ result = <<>>
    /\ NoWrapper

\* filter_operations_by_date(df, date_str): strptime raises ValueError on a
\* target that does not parse; otherwise the filtered rows are sorted and
\* returned as the list of their mappings (to_dict("records")).
FilterOperationsByDate ==
    /\ pc = "ready"
    /\ IF ~Parses(args.date_str, "Y-m-d H:M:S")
       THEN pc' = "raised" /\ result' = <<>>
       ELSE /\ result' \in SortValues(FilteredDf(operations, args.date_str.dt), "payment")
            /\ pc' = "returned"
    /\ UNCHANGED inputs

NextFilter == FilterOperationsByDate

SpecFilter == InitFilter /\ [][NextFilter]_vars

\* The rows the claim selects: a present payment date between the first day of
\* the target's month at 00:00:00 and the target day at 23:59:59.999999.
C4_Selected(df, target_date) ==
    SelectSeq(df, LAMBDA row :
        /\ row.payment.t = "ts"
        /\ DtLeq(DT(target_date.y, target_date.mo, 1, 0, 0, 0, 0), row.payment.dt)
        /\ DtLeq(row.payment.dt,
                 DT(target_date.y, target_date.mo, target_date.d, 23, 59, 59, 999999)))

\* C4: for a valid target the call returns (it does not raise on rows without a
\* payment date) exactly the rows with first_day <= d <= window_end, first_day
\* being the first day of the target's month at 00:00:00 whatever the target's
\* time of day; every returned row is a row of the table with all its fields.
C4_WindowExact ==
    /\ (pc # "ready" /\ args.date_str.form = "Y-m-d H:M:S" /\ ValidDT(args.date_str.dt))
          => pc = "returned"
    /\ pc = "returned" => IsPermutation(result, C4_Selected(operations, args.date_str.dt))

\* The target of the call, when it is valid.
C11_Target == args.date_str.dt

\* 23:59:59 of the target day, and 00:00:00 of the day after it.
C11_LastSecond == DT(C11_Target.y, C11_Target.mo, C11_Target.d, 23, 59, 59, 0)

C11_NextMidnight ==
    IF C11_Target.d < DaysIn(C11_Target.y, C11_Target.mo)
    THEN DT(C11_Target.y, C11_Target.mo, C11_Target.d + 1, 0, 0, 0, 0)
    ELSE IF C11_Target.mo < 12 THEN DT(C11_Target.y, C11_Target.mo + 1, 1, 0, 0, 0, 0)
    ELSE DT(C11_Target.y + 1, 1, 1, 0, 0, 0, 0)

\* C11: whatever the target's time of day and day of the month, a row paid at
\* 23:59:59 of the target day is in the result and a row paid at 00:00:00 of
\* the following day is not.
C11_DayBoundaries ==
    pc = "returned" =>
        \A i \in 1..Len(operations) :
            /\ operations[i].payment = TsDate(C11_LastSecond)
                  => \E j \in 1..Len(result) : result[j] = operations[i]
            /\ operations[i].payment = TsDate(C11_NextMidnight)
                  => \A j \in 1..Len(result) : result[j] # operations[i]

\* The target 2025-04-30 15:30:00, the last day of its month: the row of
\* 23:59:59 is returned, the row of 1 May 00:00:00 is not.
C11_Witness ==
    /\ pc = "returned"
    /\ C11_Target = DT(2025, 4, 30, 15, 30, 0, 0)
    /\ operations = <<[payment |-> Payment(2025, 5, 1, 0, 0, 0), amount |-> Num(-100)],
                      [payment |-> Payment(2025, 4, 30, 23, 59, 59), amount |-> Num(-100)]>>
    /\ result = <<[payment |-> Payment(2025, 4, 30, 23, 59, 59), amount |-> Num(-100)]>>

\* The rows the call keeps, in the order of the table.
C17_Kept == FilteredDf(operations, args.date_str.dt)

\* The place a stable ascending sort gives row i of the kept rows.
C17_Rank(i) ==
    1 + Cardinality({j \in 1..Len(C17_Kept) :
            \/ DtLess(C17_Kept[j].payment.dt, C17_Kept[i].payment.dt)
            \/ (C17_Kept[j].payment.dt = C17_Kept[i].payment.dt /\ j < i)})

\* C17: the result is in ascending order of payment date and rows with equal
\* payment dates keep the order they have in the table.
C17_StableAscending ==
    pc = "returned" =>
        /\ \A j \in 1..(Len(result) - 1) :
              DtLeq(result[j].payment.dt, result[j + 1].payment.dt)
        /\ Len(result) = Len(C17_Kept)
        /\ \A i \in 1..Len(C17_Kept) : result[C17_Rank(i)] = C17_Kept[i]

\* The part of C17 that holds of every build: ascending order.
C17_Ascending ==
    pc = "returned" =>
        \A j \in 1..(Len(result) - 1) : DtLeq(result[j].payment.dt, result[j + 1].payment.dt)

\* ----------------------------------------------------- spending_by_category
\* dt - pd.DateOffset(months=n): n calendar months back, the day cut to the
\* length of the month reached, the time of day kept.
MinusMonths(dt, n) ==
    LET months == dt.y * 12 + (dt.mo - 1) - n
        y == months \div 12
        mo == (months % 12) + 1
    IN  DT(y, mo, Min(dt.d, DaysIn(y, mo)), dt.h, dt.mi, dt.s, dt.us)

\* pd.api.types.is_datetime64_any_dtype(df["Дата операции"]): the column was
\* parsed before the call, its values are timestamps or NaT.
IsDatetimeColumn(df) == \A i \in 1..Len(df) : df[i].date.t \in {"ts", "nat"}

\* pd.to_datetime(column, format="%d.%m.%Y %H:%M:%S") of one value: a missing
\* value becomes NaT, a string that matches the format a timestamp.
ToDatetime(v) ==
    IF v.t \in {"ts", "nat"} THEN v
    ELSE IF v.t = "str" THEN TsDate(v.dt)
    ELSE NaT

\* pd.to_datetime raises ValueError: some string does not match the format.
ToDatetimeRaises(df) ==
    \E i \in 1..Len(df) : df[i].date.t = "str" /\ ~Parses(df[i].date, "d.m.Y H:M:S")

ParsedColumn(df) ==
    [i \in 1..Len(df) |-> [df[i] EXCEPT !.date = ToDatetime(df[i].date)]]

\* df = transactions: the call works on the caller's table itself.
WorkingTableIsInput == "input"

\* df = transactions.copy(): the call works on a copy of the caller's table.
WorkingTable == "copy"

\* The caller's table after df["Дата операции"] = pd.to_datetime(...): the
\* assignment is made when the column is not parsed yet and every string of it
\* matches the format; it reaches the caller's table only if df is that table.
TransactionsAfterCall(transactions) ==
    IF WorkingTable = "input" /\ ~IsDatetimeColumn(transactions)
          /\ ~ToDatetimeRaises(transactions)
    THEN ParsedColumn(transactions)
    ELSE transactions

\* end_date: pd.Timestamp.today() when date is None, else pd.to_datetime(date).
EndDate(date, today) == IF date.t = "none" THEN today ELSE date.dt

ReferenceDateRaises(date) == date.t # "none" /\ ~Parses(date, "Y-m-d")

\* The two comparisons of a row's date against the window; every comparison
\* with NaT is false.
InWindow(d, start_date, end_date) ==
    d.t = "ts" /\ DtLess(start_date, d.dt) /\ DtLeq(d.dt, end_date)

\* df[(category == ...) & (date > start_date) & (date <= end_date)]; a category
\* that is NaN equals no string.
FilteredSpending(df, category, end_date) ==
    SelectSeq(df, LAMBDA row :
        /\ row.category.t = "str" /\ row.category.s = category
        /\ InWindow(row.date, MinusMonths(end_date, WindowMonths), end_date))

\* An operation date as the loader reads it, "DD.MM.YYYY HH:MM:SS".
OpDate(d, mo, y, h, mi, sec) == StrDate("d.m.Y H:M:S", DT(y, mo, d, h, mi, sec, 0))

\* Rows around the windows that end on 2023-05-01 and on 2023-05-31 (which
\* starts on 2023-02-28, February having no 31st), in two spellings of the
\* category, with a missing and with a malformed date.
SpendingRows ==
    [date : {OpDate(1, 1, 2023, 10, 0, 0), OpDate(1, 2, 2023, 0, 0, 0),
             OpDate(15, 2, 2023, 12, 0, 0), OpDate(28, 2, 2023, 0, 0, 0),
             OpDate(28, 2, 2023, 12, 0, 0), OpDate(1, 5, 2023, 0, 0, 0),
             OpDate(1, 5, 2023, 10, 0, 0), NaN, SlashDate},
     category : {Text(<<"E">>)}, amount : {Num(100)}]
        \cup [date : {OpDate(15, 2, 2023, 12, 0, 0)},
              category : {Text(<<"e">>), Text(<<"T">>), NaN}, amount : {Num(100)}]
        \cup [date : {OpDate(15, 2, 2023, 12, 0, 0)},
              category : {Text(<<"E">>)}, amount : {Num(150)}]

RowsThatParse == {row \in SpendingRows : ~(row.date.t = "str" /\ ~Parses(row.date, "d.m.Y H:M:S"))}

\* The category asked for and the reference date: 2023-05-01, 2023-05-31,
\* 2023-02-30 (no day), or none.
SpendingArgs ==
    [category : {<<"E">>, <<"T">>},
     date : {StrDate("Y-m-d", DT(2023, d[1], d[2], 0, 0, 0, 0)) :
                d \in {<<5, 1>>, <<5, 31>>, <<2, 30>>}} \cup {None}]

\* The table as the loader supplies it (dates as text) or with the date column
\* already parsed by the caller.
InitSpending ==
    /\ fn = "spending_by_category"
    /\ pc = "ready"
    /\ now = DT(2023, 5, 1, 10, 0, 0, 0)
    /\ operations \in SeqUpTo(SpendingRows, MaxSpendingRows)
                        \cup {ParsedColumn(df) : df \in SeqUpTo(RowsThatParse, MaxSpendingRows)}
    /\ args \in SpendingArgs
    /\ result = <<>>
    /\ NoWrapper

\* spending_by_category(transactions, category, date): the copy's date column
\* is parsed unless it holds timestamps already, the reference date is parsed,
\* the rows are filtered and sorted by date.
SpendingByCategory ==
    /\ pc = "ready"
    /\ IF (~IsDatetimeColumn(operations) /\ ToDatetimeRaises(operations))
            \/ ReferenceDateRaises(args.date)
       THEN pc' = "raised" /\ result' = <<>>
       ELSE /\ result' \in SortValues(
                    FilteredSpending(ParsedColumn(operations), args.category,
                                     EndDate(args.date, now)),
                    "date")
            /\ pc' = "returned"
    /\ operations' = TransactionsAfterCall(operations)
    /\ UNCHANGED <<fn, now, args, files, log, returned, invocations, environ, views_df>>

NextSpending == SpendingByCategory

SpecSpending == InitSpending /\ [][NextSpending]_vars

\* end: the reference date, the current moment when none is given.
C5_End == IF args.date.t = "none" THEN now ELSE args.date.dt

\* start: end minus 3 calendar months (the day cut to the month's length).
C5_Start ==
    LET y == IF C5_End.mo > 3 THEN C5_End.y ELSE C5_End.y - 1
        mo == IF C5_End.mo > 3 THEN C5_End.mo - 3 ELSE C5_End.mo + 9
        d == IF C5_End.d > DaysIn(y, mo) THEN DaysIn(y, mo) ELSE C5_End.d
    IN  DT(y, mo, d, C5_End.h, C5_End.mi, C5_End.s, C5_End.us)

\* The operation date of a row, if it has one.
C5_HasDate(row) == row.date.t = "ts" \/ (row.date.t = "str" /\ row.date.form = "d.m.Y H:M:S")

C5_Matches(row) ==
    /\ row.category.t = "str" /\ row.category.s = args.category
    /\ C5_HasDate(row)
    /\ DtLess(C5_Start, row.date.dt) /\ DtLeq(row.date.dt, C5_End)

C5_Expected ==
    LET matching == SelectSeq(operations, C5_Matches)
    IN  [i \in 1..Len(matching) |-> [matching[i] EXCEPT !.date = TsDate(matching[i].date.dt)]]

C5_ValidReference == args.date.t = "none" \/ (args.date.form = "Y-m-d" /\ ValidDT(args.date.dt))

\* C5: for every table, category and (valid) reference date the call returns
\* exactly the rows of the category with start < d <= end, in ascending order of
\* date; when no row matches the result is empty, not an error.
C5_CategoryWindow ==
    /\ (pc # "ready" /\ C5_ValidReference) => pc = "returned"
    /\ pc = "returned" =>
          /\ IsPermutation(result, C5_Expected)
          /\ \A i \in 1..(Len(result) - 1) : DtLeq(result[i].date.dt, result[i + 1].date.dt)

\* Holds of the code: the same, for tables whose date strings all match the
\* format.
C5_WhenDatesParse ==
    (\A i \in 1..Len(operations) :
        operations[i].date.t = "str" => operations[i].date.form = "d.m.Y H:M:S")
        => C5_CategoryWindow


\* ------------------------------------ the filters and aggregators together
\* A call of any of the five filters and aggregators, on an input of its own
\* kind.
InitFrame ==
    /\ pc = "ready"
    /\ result = <<>>
    /\ NoWrapper
    /\ \/ /\ fn = "analyze_cards"
          /\ now = Midnight /\ args = NoValue
          /\ operations \in SeqUpTo(CardOps, MaxFrameRows)
       \/ /\ fn = "get_top_5_transactions"
          /\ now = Midnight /\ args = NoValue
          /\ operations \in SeqUpTo(TopOps, MaxFrameRows)
       \/ /\ fn = "analyze_cashback"
          /\ now = Midnight /\ args \in [year : {2020}, month : {7}]
          /\ operations \in SeqUpTo(CashbackRows, MaxFrameRows)
       \/ /\ fn = "filter_operations_by_date"
          /\ now = Midnight /\ args \in [date_str : FilterTargets]
          /\ operations \in SeqUpTo(FilterRows, MaxFrameRows)
       \/ /\ fn = "spending_by_category"
          /\ now = DT(2023, 5, 1, 10, 0, 0, 0) /\ args \in SpendingArgs
          /\ operations \in SeqUpTo(SpendingRows, MaxFrameRows)
                              \cup {ParsedColumn(df) : df \in SeqUpTo(RowsThatParse, MaxFrameRows)}

NextFrame ==
    \/ (fn = "analyze_cards" /\ AnalyzeCards)
    \/ (fn = "get_top_5_transactions" /\ GetTop5Transactions)
    \/ (fn = "analyze_cashback" /\ AnalyzeCashback)
    \/ (fn = "filter_operations_by_date" /\ FilterOperationsByDate)
    \/ (fn = "spending_by_category" /\ SpendingByCategory)

SpecFrame == InitFrame /\ [][NextFrame]_vars

PyBool(b) == [t |-> "bool", b |-> b]
PyList(elems) == [t |-> "list", elems |-> elems]
\* A dict, as the sequence of its items in insertion order; the keys are strings.
PyDict(items) == [t |-> "dict", items |-> items]
Item(key, value) == [key |-> key, value |-> value]
\* A pandas DataFrame, as its rows (each a dict of column -> cell).
DataFrame(rows) == [t |-> "table", rows |-> rows]
\* An object of any other class, with the text str() gives for it.
PyObject(repr) == [t |-> "obj", repr |-> repr]

\* "%02d" and "%04d"
TwoDigits(n) ==
    LET digit == <<"0", "1", "2", "3", "4", "5", "6", "7", "8", "9">>
    IN  <<digit[((n \div 10) % 10) + 1], digit[(n % 10) + 1]>>
FourDigits(n) == TwoDigits(n \div 100) \o TwoDigits(n % 100)

\* str(Timestamp): "YYYY-MM-DD HH:MM:SS" (the clock values here have no
\* microseconds).
StrTimestamp(dt) ==
    FourDigits(dt.y) \o <<"-">> \o TwoDigits(dt.mo) \o <<"-">> \o TwoDigits(dt.d) \o <<" ">>
        \o TwoDigits(dt.h) \o <<":">> \o TwoDigits(dt.mi) \o <<":">> \o TwoDigits(dt.s)

\* str(x) of a value json cannot encode.
StrOf(v) == IF v.t = "ts" THEN StrTimestamp(v.dt) ELSE v.repr

\* DataFrame.to_dict(orient="records"): the list of the rows' dicts.
ToDictRecords(df) == PyList(df.rows)

\* The types the wrapper saves as they are.
IsJsonType(v) == v.t \in {"dict", "list", "str", "num", "bool", "none"}

\* data_to_save: the records of a table, the result itself, or str(result).
DataToSave(res) ==
    IF res.t = "table" THEN ToDictRecords(res)
    ELSE IF IsJsonType(res) THEN res
    ELSE Text(StrOf(res))

\* Mutant: what is saved is what is handed back.
ReturnedSaved(res) == DataToSave(res)

\* return result
Returned(res) == res

RECURSIVE JsonDumpStrict(_)
\* Mutant: json.dump whose default= hook writes null for what it cannot encode.
JsonDumpStrict(v) ==
    CASE v.t = "none" -> [json |-> "null"]
      [] v.t = "bool" -> [json |-> IF v.b THEN "true" ELSE "false"]
      [] v.t = "num"  -> [json |-> "number", n |-> v.n]
      [] v.t = "str"  -> [json |-> "string", s |-> v.s]
      [] v.t = "list" -> [json |-> "array",
                          elems |-> [i \in 1..Len(v.elems) |-> JsonDumpStrict(v.elems[i])]]
      [] v.t = "dict" -> [json |-> "object",
                          members |-> [i \in 1..Len(v.items) |->
                                          Item(v.items[i].key, JsonDumpStrict(v.items[i].value))]]
      [] OTHER        -> [json |-> "null"]

RECURSIVE JsonDump(_)
\* json.dump(data, f, default=str): the JSON text of a value; a value of a type
\* the encoder does not know is replaced by default(value) = str(value).
JsonDump(v) ==
    CASE v.t = "none" -> [json |-> "null"]
      [] v.t = "bool" -> [json |-> IF v.b THEN "true" ELSE "false"]
      [] v.t = "num"  -> [json |-> "number", n |-> v.n]
      [] v.t = "str"  -> [json |-> "string", s |-> v.s]
      [] v.t = "list" -> [json |-> "array",
                          elems |-> [i \in 1..Len(v.elems) |-> JsonDump(v.elems[i])]]
      [] v.t = "dict" -> [json |-> "object",
                          members |-> [i \in 1..Len(v.items) |->
                                          Item(v.items[i].key, JsonDump(v.items[i].value))]]
      [] OTHER        -> [json |-> "string", s |-> StrOf(v)]

RECURSIVE JsonLoad(_)
\* json.load: the value a JSON text stands for.
JsonLoad(j) ==
    CASE j.json = "null"   -> None
      [] j.json = "true"   -> PyBool(TRUE)
      [] j.json = "false"  -> PyBool(FALSE)
      [] j.json = "number" -> Num(j.n)
      [] j.json = "string" -> Text(j.s)
      [] j.json = "array"  -> PyList([i \in 1..Len(j.elems) |-> JsonLoad(j.elems[i])])
      [] j.json = "object" -> PyDict([i \in 1..Len(j.members) |->
                                         Item(j.members[i].key, JsonLoad(j.members[i].value))])

\* f"report_{datetime.now().strftime('%Y%m%d_%H%M%S')}.json"
TimestampFilename(dt) ==
    <<"report_">> \o FourDigits(dt.y) \o TwoDigits(dt.mo) \o TwoDigits(dt.d) \o <<"_">>
        \o TwoDigits(dt.h) \o TwoDigits(dt.mi) \o TwoDigits(dt.s) \o <<".json">>

OutputFilename(filename, dt) ==
    IF filename.t = "none" THEN TimestampFilename(dt) ELSE filename.s

\* A write that leaves the earlier content of the file in place beside the new.
WriteFileKeepingOld(fs, name, content) == fs \cup {[name |-> name, content |-> content]}

\* open(name, "w") and the dump: the file is created or emptied, then written.
WriteFile(fs, name, content) ==
    {f \in fs : f.name # name} \cup {[name |-> name, content |-> content]}

\* What an invocation did, in order: it called func with arguments, wrote a
\* file, returned a value.
Event(kind, what) == [e |-> kind, what |-> what]

\* A row of a table: the columns "d" (a date) and "a" (an amount).
RowOf(date, amount) == PyDict(<<Item(<<"d">>, date), Item(<<"a">>, Num(amount))>>)

\* A table with dates as strings, and one with a datetime column (what
\* spending_by_category returns).
StringTable == DataFrame(<<RowOf(Text(StrTimestamp(DT(2023, 2, 15, 12, 0, 0, 0))), 500)>>)
TimestampTable ==
    DataFrame(<<RowOf(TsDate(DT(2023, 2, 15, 12, 0, 0, 0)), 500),
                RowOf(TsDate(DT(2023, 3, 1, 9, 30, 5, 0)), -20)>>)

\* The results of the wrapped function: tables, mappings, lists (some holding
\* a timestamp or another object), scalars, None, a timestamp, an object.
ResultValues ==
    { DataFrame(<<>>), StringTable, TimestampTable,
      PyDict(<<Item(<<"k">>, Text(<<"v">>)), Item(<<"a">>, Num(1))>>),
      PyDict(<<Item(<<"d">>, TsDate(DT(2023, 3, 1, 9, 30, 5, 0)))>>),
      PyDict(<<>>),
      PyList(<<PyDict(<<Item(<<"k">>, Text(<<"v">>))>>), PyDict(<<>>)>>),
      PyList(<<Num(2), PyObject(<<"<", "o", ">">>), None>>),
      PyList(<<>>),
      Text(<<"x">>), Text(<<>>), Num(5), Num(0), PyBool(TRUE), PyBool(FALSE), None,
      TsDate(DT(2023, 2, 15, 12, 0, 0, 0)), PyObject(<<"<", "o", ">">>) }

InitReport ==
    /\ fn = "report_to_file"
    /\ pc = "ready"
    /\ now = DT(2023, 5, 1, 10, 0, 0, 0)
    /\ operations = <<>>
    /\ args \in [filename : {None, Text(<<"out.json">>)}, passed : {<<1>>, <<1, 2>>}]
    /\ result = NoValue
    /\ files = {}
    /\ log = <<>>
    /\ returned = NoValue
    /\ invocations = 1
    /\ environ = NoValue
    /\ views_df = NoValue

\* wrapper(*args, **kwargs) when func raises: the exception leaves the wrapper
\* before anything is written.
WrapperFuncRaises ==
    /\ pc = "ready"
    /\ log' = <<Event("call", args.passed)>>
    /\ pc' = "raised"
    /\ UNCHANGED <<fn, now, operations, args, result, files, returned, invocations,
                   environ, views_df>>

\* wrapper(*args, **kwargs): func is called with the arguments, the file name is
\* chosen, the result is projected and dumped to the file, the result is
\* returned.
Wrapper ==
    /\ pc = "ready"
    /\ \E res \in ResultValues :
        LET output_filename == OutputFilename(args.filename, now)
            data_to_save == DataToSave(res)
        IN  /\ result' = res
            /\ files' = WriteFile(files, output_filename, JsonDump(data_to_save))
            /\ log' = <<Event("call", args.passed), Event("write", output_filename),
                        Event("return", Returned(res))>>
            /\ returned' = Returned(res)
    /\ pc' = "returned"
    /\ UNCHANGED <<fn, now, operations, args, invocations, environ, views_df>>

\* The caller invokes the wrapped function again, at once or a second later; the
\* decorator's filename stays what it is.
InvokeAgain ==
    /\ pc \in {"returned", "raised"}
    /\ invocations < MaxInvocations
    /\ invocations' = invocations + 1
    /\ now' \in {now, [now EXCEPT !.s = now.s + 1]}
    /\ args' \in [filename : {args.filename}, passed : {<<1>>, <<1, 2>>}]
    /\ result' = NoValue
    /\ returned' = NoValue
    /\ log' = <<>>
    /\ pc' = "ready"
    /\ UNCHANGED <<fn, operations, files, environ, views_df>>

NextReport == Wrapper \/ WrapperFuncRaises \/ InvokeAgain

SpecReport == InitReport /\ [][NextReport]_vars

\* The events of one kind in the log of the invocation.
C6_Events(kind) == SelectSeq(log, LAMBDA ev : ev.e = kind)

C7_ParsedFile == JsonLoad((CHOOSE f \in files : f.name = log[2].what).content)

\* The projection as the claim words it: the result, the list of row mappings
\* of a table, the string representation of any other type.
C7_Projection(res) ==
    IF res.t = "table" THEN PyList(res.rows)
    ELSE IF res.t \in {"dict", "list", "str", "num", "bool", "none"} THEN res
    ELSE Text(IF res.t = "ts" THEN StrTimestamp(res.dt) ELSE res.repr)

RECURSIVE C7_Stringified(_)
\* The same value with every value JSON has no form for, at any depth, replaced
\* by its string representation.
C7_Stringified(v) ==
    CASE v.t = "list" -> PyList([i \in 1..Len(v.elems) |-> C7_Stringified(v.elems[i])])
      [] v.t = "dict" -> PyDict([i \in 1..Len(v.items) |->
                                    Item(v.items[i].key, C7_Stringified(v.items[i].value))])
      [] v.t \in {"str", "num", "bool", "none"} -> v
      [] v.t = "ts"   -> Text(StrTimestamp(v.dt))
      [] OTHER        -> Text(v.repr)

C16_Serialized == JsonDump(DataToSave(result))

\* C16: after a successful invocation, with a configured filename the file
\* system holds that one file and nothing else, its content the serialization
\* of the latest result alone; without one, the file named
\* report_<YYYYMMDD>_<HHMMSS>.json after the clock holds the serialization of
\* the latest result, there is one file per name and at most one per second
\* the invocations were made in.
C16_LatestResultReplaces ==
    pc = "returned" =>
        /\ args.filename.t = "str" =>
              files = {[name |-> args.filename.s, content |-> C16_Serialized]}
        /\ args.filename.t = "none" =>
              /\ [name |-> <<"report_", "2", "0", "2", "3", "0", "5", "0", "1", "_",
                            "1", "0", "0", "0", "0", IF now.s = 0 THEN "0" ELSE
                            IF now.s = 1 THEN "1" ELSE IF now.s = 2 THEN "2" ELSE "3",
                            ".json">>,
                  content |-> C16_Serialized] \in files
              /\ \A f, g \in files : f.name = g.name => f = g
              /\ Cardinality(files) <= now.s + 1

\* Two invocations within the second 10:00:00 without a configured filename: one
\* file, report_20230501_100000.json, holding the second result.
C16_Witness ==
    /\ pc = "returned"
    /\ invocations = 2
    /\ args.filename = None
    /\ now.s = 0
    /\ result = Num(5)
    /\ files = {[name |-> TimestampFilename(DT(2023, 5, 1, 10, 0, 0, 0)),
                 content |-> [json |-> "number", n |-> 5]]}

(***************************************************************************)
(* get_financial_data and get_cbr_rates (src/utils.py)                     *)
(***************************************************************************)
\* The currencies and the stock symbols, in the order of the loops.
Currencies == <<"USD", "EUR">>
Stocks == <<"SPY", "AAPL", "AMZN", "GOOGL", "MSFT", "TSLA">>

\* The value of API_ALPHAVANTAGE in os.environ or in the .env file: not
\* defined, defined empty, or a key.
Keys == {Absent, Text(<<>>), Text(<<"k">>)}

\* What a request meets: requests.get, raise_for_status or json() raises, or a
\* JSON document arrives.  Of a primary document only the quoted value matters:
\* Absent when the document has no quote, a number (in amount units) otherwise.
Failed == [t |-> "failed"]
Reply(value) == [t |-> "reply", value |-> value]

\* A document of the secondary provider: data["Valute"][key]["Value"] for each
\* key, Absent where the document has no such entry, None for a JSON null.
CbrReply(usd, eur) == [t |-> "reply", USD |-> usd, EUR |-> eur]

\* get_cbr_rates: both rates, or the empty dict when anything in the body
\* raises, a missing entry (KeyError) included.
get_cbr_rates(reply) ==
    IF reply.t = "failed" \/ reply.USD.t = "absent" \/ reply.EUR.t = "absent"
    THEN [USD |-> Absent, EUR |-> Absent]
    ELSE [USD |-> reply.USD, EUR |-> reply.EUR]

\* `API_KEY is None`: an empty key passes.
IsKeyOrEmpty(key) == key.t = "str"

\* `API_KEY` as a condition: a non-empty string.
IsKey(key) == key.t = "str" /\ key.s # <<>>

\* load_dotenv(): a name of the .env file is set in os.environ unless os.environ
\* defines it already.
load_dotenv(env, dotenv) ==
    IF env.API_ALPHAVANTAGE.t = "absent" THEN [API_ALPHAVANTAGE |-> dotenv] ELSE env

\* An exception that reaches the caller.
Exception(type) == [t |-> "exception", type |-> type]

\* {"currency": key, "rate": round(rate, 2)}, the rate kept in units of 0.01.
RateEntry(key, rate) == [currency |-> key, rate |-> RoundHalfEven(rate, SubCent)]

\* One turn of the currency loop.  st holds the rates appended so far, the
\* requests sent so far and whether an exception has left the function.
AfterCurrency(st, key, net) ==
    IF st.raised THEN st
    ELSE LET primary == net.primary[key]
             asked == Append(st.requests, Event("primary", key))
         IN  IF primary.t = "reply" /\ primary.value.t = "num"
             THEN [st EXCEPT !.requests = asked,
                             !.rates = Append(@, RateEntry(key, primary.value.n))]
             ELSE LET cbr_rates == get_cbr_rates(net.cbr[key])
                      again == Append(asked, Event("secondary", key))
                  IN  CASE cbr_rates[key].t = "absent" ->
                               [st EXCEPT !.requests = again]
                        [] cbr_rates[key].t = "num" ->
                               [st EXCEPT !.requests = again,
                                          !.rates = Append(@, RateEntry(key, cbr_rates[key].n))]
                        [] OTHER ->
                               [st EXCEPT !.requests = again, !.raised = TRUE]

\* The stock loop from the i-th symbol on: every symbol is requested, a symbol
\* with a price is appended.
RECURSIVE AfterStocks(_, _, _)
AfterStocks(st, i, net) ==
    IF i > Len(Stocks) THEN st
    ELSE LET symbol == Stocks[i]
             reply == net.stocks[symbol]
             asked == Append(st.requests, Event("primary", symbol))
         IN  AfterStocks(
                 IF reply.t = "reply" /\ reply.value.t = "num"
                 THEN [st EXCEPT !.requests = asked,
                                 !.prices = Append(@, [stock |-> symbol,
                                     price |-> RoundHalfEven(reply.value.n, SubCent)])]
                 ELSE [st EXCEPT !.requests = asked],
                 i + 1, net)

\* The body of get_financial_data after the key check.
get_financial_data(net) ==
    LET start == [rates |-> <<>>, prices |-> <<>>, requests |-> <<>>, raised |-> FALSE]
        rated == AfterCurrency(AfterCurrency(start, Currencies[1], net), Currencies[2], net)
    IN  IF rated.raised THEN rated ELSE AfterStocks(rated, 1, net)

\* The replies of the providers to the currency requests, and to the stock
\* requests; the same reply to every request of a kind.
PrimaryReplies == {Failed, Reply(Absent), Reply(Num(90125))}
CbrReplies ==
    {Failed} \cup {CbrReply(usd, eur) : usd \in {Absent, None, Num(91004)},
                                        eur \in {Absent, None, Num(99996)}}
StockReplies == {Failed, Reply(Absent), Reply(Num(15055))}
Each(keys, reply) == [k \in keys |-> reply]

\* Every pattern of currency replies with the stock requests all alike, and
\* every pattern of stock replies with the currency requests all alike.
InitFinancial ==
    /\ fn = "get_financial_data"
    /\ pc = "ready"
    /\ now = Midnight
    /\ operations = <<>>
    /\ result = NoValue
    /\ files = {} /\ log = <<>> /\ returned = NoValue /\ invocations = 0
    /\ views_df = NoValue
    /\ environ \in [API_ALPHAVANTAGE : Keys]
    /\ args \in [dotenv : Keys,
                 primary : [{"USD", "EUR"} -> PrimaryReplies],
                 cbr : [{"USD", "EUR"} -> CbrReplies],
                 stocks : {Each({"SPY", "AAPL", "AMZN", "GOOGL", "MSFT", "TSLA"}, r) :
                               r \in StockReplies}]
            \cup
                [dotenv : Keys,
                 primary : {Each({"USD", "EUR"}, r) : r \in PrimaryReplies},
                 cbr : {Each({"USD", "EUR"}, r) :
                            r \in {Failed, CbrReply(Num(91004), Num(99996))}},
                 stocks : [{"SPY", "AAPL", "AMZN", "GOOGL", "MSFT", "TSLA"} -> StockReplies]]

\* A call of get_financial_data; log is the list of the requests it sent.
GetFinancialData ==
    /\ pc = "ready"
    /\ environ' = load_dotenv(environ, args.dotenv)
    /\ IF ~IsKey(environ'.API_ALPHAVANTAGE)
       THEN /\ pc' = "raised"
            /\ result' = Exception("ValueError")
            /\ log' = log
       ELSE LET out == get_financial_data(args)
            IN  /\ log' = out.requests
                /\ IF out.raised
                   THEN pc' = "raised" /\ result' = Exception("TypeError")
                   ELSE /\ pc' = "returned"
                        /\ result' = [exchange_rates |-> out.rates,
                                      stock_prices |-> out.prices]
    /\ UNCHANGED <<fn, now, operations, args, files, returned, invocations, views_df>>

SpecFinancial == InitFinancial /\ [][GetFinancialData]_vars

\* C13: a call made with no key, or an empty one, in os.environ and in the .env
\* file ends with the configuration error, has sent no request to either
\* provider and has returned nothing.
C13_NoKeyNoRequest ==
    (pc # "ready" /\ ~(environ.API_ALPHAVANTAGE.t = "str"
                        /\ Len(environ.API_ALPHAVANTAGE.s) > 0))
        => /\ pc = "raised"
           /\ result = Exception("ValueError")
           /\ log = <<>>

\* The call was made with an empty key in os.environ, a key in the .env file,
\* and providers that would all have answered; it has raised.
C13_Witness ==
    /\ pc = "raised"
    /\ environ.API_ALPHAVANTAGE = Text(<<>>)
    /\ args.dotenv = Text(<<"k">>)
    /\ args.primary["USD"] = Reply(Num(90125))
    /\ args.stocks["SPY"] = Reply(Num(15055))
    /\ log = <<>>

\* The requests of the log sent to a provider for a key.
C14_Asked(provider, key) ==
    Len(SelectSeq(log, LAMBDA e : e = [e |-> provider, what |-> key]))

\* The primary provider gave a rate for the currency; the secondary provider's
\* document holds a number for it.
C14_PrimaryGave(key) ==
    args.primary[key].t = "reply" /\ args.primary[key].value.t = "num"
C14_SecondaryGave(key) ==
    args.cbr[key].t = "reply" /\ args.cbr[key][key].t = "num"

\* The stock symbols from the i-th on whose request was answered with a price.
RECURSIVE C14_Priced(_)
C14_Priced(i) ==
    IF i > 6 THEN <<>>
    ELSE LET symbol == <<"SPY", "AAPL", "AMZN", "GOOGL", "MSFT", "TSLA">>[i]
         IN  (IF args.stocks[symbol].t = "reply" /\ args.stocks[symbol].value.t = "num"
              THEN <<symbol>> ELSE <<>>) \o C14_Priced(i + 1)

\* What C14 says of a call that has returned: the secondary provider was asked
\* for a currency only when the primary gave no rate for it; the result holds
\* one rate entry for a currency that either provider supplied, none for another,
\* USD before EUR; every symbol was requested once and the priced symbols are
\* listed in the order of the symbol list.
C14_Fallback ==
    /\ \A key \in {"USD", "EUR"} :
          /\ C14_Asked("primary", key) = 1
          /\ C14_Asked("secondary", key) = (IF C14_PrimaryGave(key) THEN 0 ELSE 1)
    /\ [i \in 1..Len(result.exchange_rates) |-> result.exchange_rates[i].currency]
          = (IF C14_PrimaryGave("USD") \/ C14_SecondaryGave("USD") THEN <<"USD">> ELSE <<>>)
            \o (IF C14_PrimaryGave("EUR") \/ C14_SecondaryGave("EUR") THEN <<"EUR">> ELSE <<>>)
    /\ \A symbol \in {"SPY", "AAPL", "AMZN", "GOOGL", "MSFT", "TSLA"} :
          C14_Asked("primary", symbol) = 1
    /\ [i \in 1..Len(result.stock_prices) |-> result.stock_prices[i].stock] = C14_Priced(1)

\* C14: a call made with a key never raises, whichever requests fail or bring
\* no data, and its result is the one the fallback rule describes.
C14_NeverRaises ==
    (pc # "ready" /\ environ.API_ALPHAVANTAGE.t = "str"
                  /\ Len(environ.API_ALPHAVANTAGE.s) > 0)
        => (pc = "returned" /\ C14_Fallback)

\* The same for the calls in which every document of the secondary provider
\* holds both rates as numbers or neither rate.
C14_WhenSecondaryWhole ==
    (/\ pc # "ready"
     /\ environ.API_ALPHAVANTAGE.t = "str" /\ Len(environ.API_ALPHAVANTAGE.s) > 0
     /\ \A key \in {"USD", "EUR"} :
           \/ args.cbr[key].t = "failed"
           \/ args.cbr[key].USD.t = "num" /\ args.cbr[key].EUR.t = "num"
           \/ args.cbr[key].USD.t = "absent" /\ args.cbr[key].EUR.t = "absent")
        => (pc = "returned" /\ C14_Fallback)

(***************************************************************************)
(* generate_financial_report (src/views.py)                                *)
(***************************************************************************)
\* process_excel: the payment dates are parsed as "%d.%m.%Y" with
\* errors="coerce"; what does not parse becomes NaT.
process_excel(sheet) ==
    [i \in 1..Len(sheet) |->
        [sheet[i] EXCEPT !.payment =
            IF Parses(@, "d.m.Y") THEN TsDate(@.dt) ELSE NaT]]

\* Rows of a spreadsheet with every column the report reads; an empty cell is
\* read as NaN.
SheetRows ==
    {[payment |-> StrDate("d.m.Y", DT(2025, 4, 2, 0, 0, 0, 0)), date |-> OperationDate,
      card |-> Text(<<"9", "1", "2", "3", "4">>), amount |-> Num(-504),
      category |-> Text(<<"T">>), description |-> Text(<<"a">>)],
     [payment |-> StrDate("d.m.Y", DT(2025, 4, 1, 0, 0, 0, 0)), date |-> NaN,
      card |-> NaN, amount |-> Num(300),
      category |-> NaN, description |-> Text(<<"b">>)],
     [payment |-> StrDate("d.m.Y", DT(2025, 4, 7, 0, 0, 0, 0)), date |-> OperationDate,
      card |-> Text(<<"7", "7">>), amount |-> Num(-1000),
      category |-> Text(<<"T">>), description |-> Text(<<"c">>)],
     [payment |-> NaN, date |-> OperationDate,
      card |-> Text(<<"7", "7">>), amount |-> Num(-1000),
      category |-> Text(<<"T">>), description |-> Text(<<"d">>)]}

\* The report of one call on the filtered operations and the quotes.
Report(greeting, ops, financial_data) ==
    [greeting |-> greeting,
     cards |-> analyze_cards(ops),
     top_transactions |-> get_top_5_transactions(ops),
     currency_rates |-> financial_data.rates,
     stock_prices |-> financial_data.prices]

\* The module is imported (df = None); operations is the spreadsheet
\* "operations.xlsx", and there is no other.
InitViews ==
    /\ fn = "generate_financial_report"
    /\ pc = "ready"
    /\ now \in {DT(2025, 4, 6, 10, 0, 0, 0), DT(2025, 4, 6, 20, 0, 0, 0)}
    /\ operations \in SeqUpTo(SheetRows, MaxSheetRows)
    /\ args \in [excel_file_path : {"operations.xlsx", "missing.xlsx"},
                 target_date_str : {StrDate("Y-m-d H:M:S", DT(2025, 4, 6, 22, 12, 53, 0)),
                                    StrDate("d.m.Y", DT(2025, 4, 6, 0, 0, 0, 0))},
                 dotenv : {Absent, Text(<<"k">>)},
                 primary : {Each({"USD", "EUR"}, r) : r \in {Failed, Reply(Num(90125))}},
                 cbr : {Each({"USD", "EUR"}, CbrReply(Num(91004), Num(99996)))},
                 stocks : {Each({"SPY", "AAPL", "AMZN", "GOOGL", "MSFT", "TSLA"}, r) :
                               r \in {Failed, Reply(Num(15055))}}]
    /\ result = NoValue
    /\ files = {} /\ log = <<>> /\ returned = NoValue /\ invocations = 0
    /\ environ \in [API_ALPHAVANTAGE : {Absent, Text(<<"k">>)}]
    /\ views_df = None

\* A call of generate_financial_report, the first or a later one.  The steps
\* follow the body: each one that raises ends the call with what the earlier
\* steps have done.
GenerateFinancialReport ==
    /\ invocations < MaxInvocations
    /\ invocations' = invocations + 1
    /\ IF args.excel_file_path # "operations.xlsx"
       THEN /\ pc' = "raised" /\ result' = Exception("FileNotFoundError")
            /\ UNCHANGED <<views_df, environ, log>>
       ELSE /\ views_df' = process_excel(operations)
            /\ IF ~Parses(args.target_date_str, "Y-m-d H:M:S")
               THEN /\ pc' = "raised" /\ result' = Exception("ValueError")
                    /\ UNCHANGED <<environ, log>>
               ELSE /\ environ' = load_dotenv(environ, args.dotenv)
                    /\ IF ~IsKey(environ'.API_ALPHAVANTAGE)
                       THEN /\ pc' = "raised" /\ result' = Exception("ValueError")
                            /\ log' = log
                       ELSE LET financial_data == get_financial_data(args)
                            IN  /\ log' = log \o financial_data.requests
                                /\ pc' = "returned"
                                /\ \E ops \in SortValues(
                                       FilteredDf(views_df', args.target_date_str.dt),
                                       "payment") :
                                       result' = Report(get_greeting(now.h), ops,
                                                        financial_data)
    /\ UNCHANGED <<fn, now, operations, args, files, returned>>

SpecViews == InitViews /\ [][GenerateFinancialReport]_vars

\* C19: no call of generate_financial_report, returning or raising, changes a
\* module-level variable of views: df keeps the value it had before the call.
C19_ModuleVariablesKept == [][views_df' = views_df]_vars

\* The calls leave the spreadsheet, the arguments and the files as they were.
C19_InputsAndFilesKept == [][operations' = operations /\ args' = args /\ files' = files]_vars

====
